---- MODULE Spec2Model ----
(***************************************************************************)
(* The student CRUD application of src/app.py: one table `student`        *)
(* (id INTEGER PRIMARY KEY, name, email UNIQUE, age) and the four request  *)
(* handlers index, add_student, edit_student and delete_student.           *)
(*                                                                         *)
(* Each request is served by a worker with its own ORM session and its     *)
(* own connection to the SQLite file.  A handler is cut at the points      *)
(* where it talks to the store: every SELECT, and every flush+COMMIT, is   *)
(* one atomic step.  `rows` is the committed content of the table.         *)
(***************************************************************************)
EXTENDS Integers, Sequences, FiniteSets, TLC

\* Largest id the store hands out in the model (POST /add is disabled beyond it).
MaxId == 3

\* The workers that serve requests concurrently.
Procs == {1, 2}

\* The worker that serves every request when requests come one at a time.
SeqProcs == {1}

\* request.form of a POST: three text fields.
Forms ==
  { [name |-> "Alice", email |-> "a@x.com", age |-> "20"],
    [name |-> "Bob",   email |-> "b@x.com", age |-> "21"],
    [name |-> "Carol", email |-> "c@x.com", age |-> "22"],
    [name |-> "Dave",  email |-> "a@x.com", age |-> "23"] }

\* The forms submitted to POST /edit/<id>: Dave's, whose email is the record's own
\* when Alice's record is edited, another record's when Alice is stored and
\* Bob's or Carol's record is edited, and nobody's otherwise.
EditForms == {f \in Forms : f.name = "Dave"}

NoForm == [name |-> "", email |-> "", age |-> ""]

\* The ids a URL /edit/<int:id> or /delete/<int:id> may carry.
Ids == 1..MaxId

VARIABLES
  rows,        \* the table: id -> [name, email, age] (committed state)
  lock,        \* the worker whose open transaction holds the write lock, 0 if none
  pc,          \* per worker: the next statement of the handler it runs
  req,         \* per worker: the request being served
  resp,        \* per worker: the response, once pc = "done"
  target,      \* per worker: the id of the object get_or_404 loaded, 0 if none
  loaded,      \* per worker: the email that object was loaded with
  students,    \* per worker: delete_student's `students` with the ids assigned to them
  assigned     \* per worker: the id the store gave the row of a POST /add, 0 if none

vars == <<rows, lock, pc, req, resp, target, loaded, students, assigned>>

----------------------------------------------------------------------------
(* The store. *)

NoRow == [name |-> "", email |-> "", age |-> 0]

EmptyTable == [i \in {} |-> NoRow]

\* Column age is INTEGER: the text of a form field is stored as the integer it spells.
IntegerAffinity(s) ==
  CASE s = "20" -> 20
    [] s = "21" -> 21
    [] s = "22" -> 22
    [] s = "23" -> 23
    [] OTHER -> 0

Max(S) == CHOOSE x \in S : \A y \in S : y <= x

Min(S) == CHOOSE x \in S : \A y \in S : x <= y

\* Faulty variant of NextId: ids counted from 0.
NextIdFromZero(R) == IF DOMAIN R = {} THEN 0 ELSE Max(DOMAIN R) + 1

\* Faulty variant of NextId: the smallest id not in use, so that gaps are filled.
NextIdLowestFree(R) == Min({i \in 1..(Cardinality(DOMAIN R) + 1) : i \notin DOMAIN R})

\* id = db.Column(db.Integer, primary_key=True): the rowid of a new row is one
\* more than the largest rowid in the table, 1 in an empty table.
NextId(R) == IF DOMAIN R = {} THEN 1 ELSE Max(DOMAIN R) + 1

\* email = db.Column(..., unique=True): some row other than `except` holds email e.
EmailTaken(R, e, except) == \E j \in DOMAIN R : j # except /\ R[j].email = e

RECURSIVE SortedIds(_)
SortedIds(S) == IF S = {} THEN <<>> ELSE <<Min(S)>> \o SortedIds(S \ {Min(S)})

\* Student.query.all(): the rows of the table, in rowid order.
ListAll(R) ==
  LET ids == SortedIds(DOMAIN R)
  IN  [k \in 1..Len(ids) |->
         [id |-> ids[k], name |-> R[ids[k]].name,
          email |-> R[ids[k]].email, age |-> R[ids[k]].age]]

\* Faulty variant of Insert: the email column without its UNIQUE constraint.
InsertUnchecked(R, f) ==
  [error |-> "",
   rows |-> [i \in DOMAIN R \cup {NextId(R)} |->
               IF i = NextId(R)
               THEN [name |-> f.name, email |-> f.email, age |-> IntegerAffinity(f.age)]
               ELSE R[i]]]

\* INSERT INTO student (name, email, age): ok, or the UNIQUE constraint fails.
Insert(R, f) ==
  IF EmailTaken(R, f.email, 0)
  THEN [error |-> "IntegrityError", rows |-> R]
  ELSE [error |-> "",
        rows |-> [i \in DOMAIN R \cup {NextId(R)} |->
                    IF i = NextId(R)
                    THEN [name |-> f.name, email |-> f.email,
                          age |-> IntegerAffinity(f.age)]
                    ELSE R[i]]]

\* Variant of DeleteRow: the delete and the renumbering in one transaction.
DeleteRowCompact(R, k) ==
  LET S == DOMAIN R \ {k}
  IN  [i \in 1..Cardinality(S) |->
         R[CHOOSE o \in S : Cardinality({x \in S : x <= o}) = i]]

\* DELETE FROM student WHERE id = k (a missing row is only warned about).
DeleteRow(R, k) == [i \in DOMAIN R \ {k} |-> R[i]]

\* Faulty variant of UpdateRow: the age is not written.
UpdateRowKeepAge(R, k, was, f) ==
  IF k \notin DOMAIN R
  THEN [error |-> "StaleDataError", rows |-> R]
  ELSE IF f.email # was /\ EmailTaken(R, f.email, k)
  THEN [error |-> "IntegrityError", rows |-> R]
  ELSE [error |-> "",
        rows |-> [R EXCEPT ![k] =
                    [name |-> f.name,
                     email |-> IF f.email # was THEN f.email ELSE R[k].email,
                     age |-> R[k].age]]]

\* UPDATE student SET name, email, age WHERE id = k, with the columns whose value
\* differs from the one loaded (age always does: the form's text against an
\* integer); `was` is the email the object was loaded with.
UpdateRow(R, k, was, f) ==
  IF k \notin DOMAIN R
  THEN [error |-> "StaleDataError", rows |-> R]
  ELSE IF f.email # was /\ EmailTaken(R, f.email, k)
  THEN [error |-> "IntegrityError", rows |-> R]
  ELSE [error |-> "",
        rows |-> [R EXCEPT ![k] =
                    [name |-> f.name,
                     email |-> IF f.email # was THEN f.email ELSE R[k].email,
                     age |-> IntegerAffinity(f.age)]]]

\* UPDATE student SET id = new WHERE id = old.
Rekey(R, old, new) ==
  [i \in (DOMAIN R \ {old}) \cup {new} |-> IF i = new THEN R[old] ELSE R[i]]

\* Faulty variant of ApplyUpdates: only the first object gets its new id.
ApplyFirstUpdate(R, ups) ==
  IF ups = <<>> THEN [error |-> "", rows |-> R]
  ELSE LET u == Head(ups)
       IN  IF u.old \notin DOMAIN R THEN [error |-> "StaleDataError", rows |-> R]
           ELSE IF u.new \in DOMAIN R THEN [error |-> "IntegrityError", rows |-> R]
           ELSE [error |-> "", rows |-> Rekey(R, u.old, u.new)]

\* The flush of the renumbering: one UPDATE of the primary key per object whose id
\* changed, in the order of the ids they were loaded with, in one transaction.
RECURSIVE ApplyUpdates(_, _)
ApplyUpdates(R, ups) ==
  IF ups = <<>> THEN [error |-> "", rows |-> R]
  ELSE LET u == Head(ups)
       IN  IF u.old \notin DOMAIN R THEN [error |-> "StaleDataError", rows |-> R]
           ELSE IF u.new \in DOMAIN R THEN [error |-> "IntegrityError", rows |-> R]
           ELSE ApplyUpdates(Rekey(R, u.old, u.new), Tail(ups))

\* Faulty variant of Enumerate: enumerate(students) without start=1.
EnumerateFromZero(R) ==
  LET ids == SortedIds(DOMAIN R)
  IN  [k \in 1..Len(ids) |-> [old |-> ids[k], new |-> k - 1]]

\* Student.query.order_by(Student.id).all() and `for i, s in enumerate(students,
\* start=1): s.id = i`: each object with the id it was loaded with and its new one.
Enumerate(R) ==
  LET ids == SortedIds(DOMAIN R)
  IN  [k \in 1..Len(ids) |-> [old |-> ids[k], new |-> k]]

Changed(u) == u.old # u.new

----------------------------------------------------------------------------
(* Responses. *)

NoResp == [status |-> 0, template |-> "", error |-> "", location |-> "", students |-> <<>>]

Render(t, e) == [NoResp EXCEPT !.status = 200, !.template = t, !.error = e]

RenderIndex(R) == [Render("index.html", "") EXCEPT !.students = ListAll(R)]

RedirectIndex == [NoResp EXCEPT !.status = 302, !.location = "/"]

NotFound == [NoResp EXCEPT !.status = 404]

ServerError(e) == [NoResp EXCEPT !.status = 500, !.error = e]

NoReq == [op |-> "", method |-> "", id |-> 0, form |-> NoForm]

----------------------------------------------------------------------------
(* The workers. *)

Init ==
  /\ rows = EmptyTable
  /\ lock = 0
  /\ pc = [p \in Procs |-> "idle"]
  /\ req = [p \in Procs |-> NoReq]
  /\ resp = [p \in Procs |-> NoResp]
  /\ target = [p \in Procs |-> 0]
  /\ loaded = [p \in Procs |-> ""]
  /\ students = [p \in Procs |-> <<>>]
  /\ assigned = [p \in Procs |-> 0]

\* A finished handler's response goes out before any other worker moves on: the
\* step touches nothing the others read.
Turn(p) == \A q \in Procs \ {p} : pc[q] # "done"

\* A request arrives at worker p.
Arrive(p, r) ==
  /\ Turn(p)
  /\ pc[p] = "idle"
  /\ req' = [req EXCEPT ![p] = r]

Serving(q) == pc[q] \notin {"idle", "done"}

\* The handler returns or raises; the session is removed, which rolls back
\* whatever it left open and forgets the objects it loaded.
Return(p, r) ==
  /\ pc' = [pc EXCEPT ![p] = "done"]
  /\ resp' = [resp EXCEPT ![p] = r]
  /\ lock' = IF lock = p THEN 0 ELSE lock
  /\ target' = [target EXCEPT ![p] = 0]
  /\ loaded' = [loaded EXCEPT ![p] = ""]
  /\ students' = [students EXCEPT ![p] = <<>>]

Goto(p, label) ==
  /\ pc' = [pc EXCEPT ![p] = label]
  /\ UNCHANGED resp

\* get_or_404(id): the object is loaded into the session; the flush compares the
\* attributes set later with the values loaded here.
Load(p, id) ==
  /\ target' = [target EXCEPT ![p] = id]
  /\ loaded' = [loaded EXCEPT ![p] = rows[id].email]

\* Another worker's open transaction holds the write lock of the file: the
\* first INSERT, UPDATE or DELETE of a transaction gives up (database is locked).
Locked(p) == lock \notin {0, p}

\* The outcomes of COMMIT: it takes effect, or, while another connection is at
\* work on the file, the store may deny it the exclusive lock.
CommitOutcomes(p) ==
  IF \E q \in Procs \ {p} : Serving(q) THEN {"", "OperationalError"} ELSE {""}

\* GET /
index(p) ==
  /\ Arrive(p, [NoReq EXCEPT !.op = "index", !.method = "GET"])
  /\ Return(p, RenderIndex(rows))
  /\ UNCHANGED <<rows, assigned>>

\* GET /add
add_form(p) ==
  /\ Arrive(p, [NoReq EXCEPT !.op = "add", !.method = "GET"])
  /\ Return(p, Render("add.html", ""))
  /\ UNCHANGED <<rows, assigned>>

\* POST /add: db.session.add(new_student); db.session.commit()
add_student(p, f) ==
  /\ NextId(rows) <= MaxId
  /\ Arrive(p, [NoReq EXCEPT !.op = "add", !.method = "POST", !.form = f])
  /\ \E e \in CommitOutcomes(p) :
       LET ins == IF Locked(p) THEN [error |-> "OperationalError", rows |-> rows]
                  ELSE IF Insert(rows, f).error = "" /\ e # ""
                  THEN [error |-> e, rows |-> rows]
                  ELSE Insert(rows, f)
       IN  /\ rows' = ins.rows
           /\ Return(p, IF ins.error = "" THEN RedirectIndex ELSE ServerError(ins.error))
           /\ assigned' = [assigned EXCEPT ![p] = IF ins.error = "" THEN NextId(rows) ELSE 0]

\* GET /edit/<id>: get_or_404, then the form filled in from the row.
edit_form(p, id) ==
  /\ Arrive(p, [NoReq EXCEPT !.op = "edit", !.method = "GET", !.id = id])
  /\ Return(p, IF id \in DOMAIN rows THEN Render("edit.html", "") ELSE NotFound)
  /\ UNCHANGED <<rows, assigned>>

\* POST /edit/<id>: get_or_404, then the three attributes set from the form.
edit_load(p, id, f) ==
  /\ Arrive(p, [NoReq EXCEPT !.op = "edit", !.method = "POST", !.id = id, !.form = f])
  /\ IF id \in DOMAIN rows
     THEN Goto(p, "edit_check") /\ Load(p, id) /\ UNCHANGED <<lock, students>>
     ELSE Return(p, NotFound)
  /\ UNCHANGED <<rows, assigned>>

\* Student.query.filter(Student.email == student.email, Student.id != id).first():
\* the query first flushes the session (autoflush), which sends the UPDATE of the
\* modified student and opens the transaction; the SELECT then reads the table as
\* that transaction sees it.  `if existing:` renders the form with the error.
edit_check(p) ==
  /\ Turn(p)
  /\ pc[p] = "edit_check"
  /\ LET f     == req[p].form
         flush == IF Locked(p) THEN [error |-> "OperationalError", rows |-> rows]
                  ELSE UpdateRow(rows, target[p], loaded[p], f)
         existing == EmailTaken(flush.rows, f.email, req[p].id)
     IN  IF flush.error # "" THEN Return(p, ServerError(flush.error))
         ELSE IF existing THEN Return(p, Render("edit.html", "Email already exists!"))
         ELSE /\ Goto(p, "edit_commit")
              /\ lock' = p
              /\ UNCHANGED <<target, loaded, students>>
  /\ UNCHANGED <<rows, req, assigned>>

\* Faulty variant of edit_commit: the commit outside any try block.
edit_commit_unhandled(p) ==
  /\ Turn(p)
  /\ pc[p] = "edit_commit"
  /\ \E e \in CommitOutcomes(p) :
       IF e = ""
       THEN /\ rows' = UpdateRow(rows, target[p], loaded[p], req[p].form).rows
            /\ Return(p, RedirectIndex)
       ELSE /\ rows' = rows
            /\ Return(p, ServerError(e))
  /\ UNCHANGED <<req, assigned>>

\* try: db.session.commit(); redirect / except: db.session.rollback(); render.
edit_commit(p) ==
  /\ Turn(p)
  /\ pc[p] = "edit_commit"
  /\ \E e \in CommitOutcomes(p) :
       IF e = ""
       THEN /\ rows' = UpdateRow(rows, target[p], loaded[p], req[p].form).rows
            /\ Return(p, RedirectIndex)
       ELSE /\ rows' = rows
            /\ Return(p, Render("edit.html", "Update failed: "))
  /\ UNCHANGED <<req, assigned>>

\* Faulty variant of delete_load: get(id) in place of get_or_404(id).
delete_load_unchecked(p, id) ==
  /\ Arrive(p, [NoReq EXCEPT !.op = "delete", !.method = "GET", !.id = id])
  /\ Goto(p, "delete_commit")
  /\ target' = [target EXCEPT ![p] = id]
  /\ UNCHANGED <<lock, loaded, students>>
  /\ UNCHANGED <<rows, assigned>>

\* GET /delete/<id>: get_or_404.
delete_load(p, id) ==
  /\ Arrive(p, [NoReq EXCEPT !.op = "delete", !.method = "GET", !.id = id])
  /\ IF id \in DOMAIN rows
     THEN /\ Goto(p, "delete_commit")
          /\ target' = [target EXCEPT ![p] = id]
          /\ UNCHANGED <<lock, loaded, students>>
     ELSE Return(p, NotFound)
  /\ UNCHANGED <<rows, assigned>>

\* db.session.delete(student); db.session.commit()
delete_commit(p) ==
  /\ Turn(p)
  /\ pc[p] = "delete_commit"
  /\ \E e \in CommitOutcomes(p) :
       IF Locked(p) \/ e # ""
       THEN rows' = rows /\ Return(p, ServerError("OperationalError"))
       ELSE /\ rows' = DeleteRow(rows, target[p])
            /\ Goto(p, "delete_query")
            /\ UNCHANGED <<lock, target, loaded, students>>
  /\ UNCHANGED <<req, assigned>>

\* students = Student.query.order_by(Student.id).all(); s.id = i for each.
delete_query(p) ==
  /\ Turn(p)
  /\ pc[p] = "delete_query"
  /\ students' = [students EXCEPT ![p] = Enumerate(rows)]
  /\ Goto(p, "renumber_commit")
  /\ UNCHANGED <<rows, lock, req, target, loaded, assigned>>

\* db.session.commit() of the new ids; redirect(url_for('index')).  With no id
\* changed the commit sends nothing.
renumber_commit(p) ==
  /\ Turn(p)
  /\ pc[p] = "renumber_commit"
  /\ LET ups == SelectSeq(students[p], Changed)
     IN  \E e \in CommitOutcomes(p) :
           LET out == IF ups = <<>> THEN [error |-> "", rows |-> rows]
                      ELSE IF Locked(p) THEN [error |-> "OperationalError", rows |-> rows]
                      ELSE IF ApplyUpdates(rows, ups).error = "" /\ e # ""
                      THEN [error |-> e, rows |-> rows]
                      ELSE ApplyUpdates(rows, ups)
           IN  /\ rows' = out.rows
               /\ Return(p, IF out.error = "" THEN RedirectIndex ELSE ServerError(out.error))
  /\ UNCHANGED <<req, assigned>>

\* The response goes out and the worker is free for the next request.
respond(p) ==
  /\ pc[p] = "done"
  /\ pc' = [pc EXCEPT ![p] = "idle"]
  /\ req' = [req EXCEPT ![p] = NoReq]
  /\ resp' = [resp EXCEPT ![p] = NoResp]
  /\ assigned' = [assigned EXCEPT ![p] = 0]
  /\ UNCHANGED <<rows, lock, target, loaded, students>>

Handler(p) ==
  \/ index(p)
  \/ add_form(p)
  \/ \E f \in Forms : add_student(p, f)
  \/ \E id \in Ids : edit_form(p, id)
  \/ \E id \in Ids, f \in EditForms : edit_load(p, id, f)
  \/ edit_check(p)
  \/ edit_commit(p)
  \/ \E id \in Ids : delete_load(p, id)
  \/ delete_commit(p)
  \/ delete_query(p)
  \/ renumber_commit(p)
  \/ respond(p)

\* Requests are served concurrently, one worker each.
Next == \E p \in Procs : Handler(p)

Spec == Init /\ [][Next]_vars

\* Requests are served one at a time.
SeqNext == \E p \in SeqProcs : Handler(p)

SeqSpec == Init /\ [][SeqNext]_vars

----------------------------------------------------------------------------
(* Properties. *)

TypeOK ==
  /\ DOMAIN rows \subseteq Ids
  /\ lock \in Procs \cup {0}
  /\ \A p \in Procs : pc[p] \in {"idle", "done", "edit_check", "edit_commit",
                                 "delete_commit", "delete_query", "renumber_commit"}

\* The ids S are 1..n, n the number of them.
Contiguous(S) == S = 1..Cardinality(S)

\* The place of id o among the ids S, counted from 1 in increasing order.
Rank(S, o) == Cardinality({x \in S : x <= o})

NoDupEmail(R) == \A i, j \in DOMAIN R : i # j => R[i].email # R[j].email

\* The row a form asks for.
RowOf(f) == [name |-> f.name, email |-> f.email, age |-> IntegerAffinity(f.age)]

\* Worker p takes the step that leads from label a to label b.
Moves(p, a, b) == pc[p] = a /\ pc'[p] = b

\* Worker p has answered a request `op` sent with `method`.
Answered(p, op, method) == pc[p] = "done" /\ req[p].op = op /\ req[p].method = method

\* The ids delete_student loaded on line 127.
LoadedIds(p) == {students[p][k].old : k \in DOMAIN students[p]}

\* C1: a GET /delete/<id> removes exactly the row with that id, every other row
\* untouched; and its renumbering, when the rows it loaded are still the rows of
\* the table, leaves the ids 1..n, given in the order of the prior ids, with
\* each row's name, email and age as they were.
C1_DeleteRenumbers ==
  [][\A p \in Procs :
       /\ (Moves(p, "delete_commit", "delete_query") /\ target[p] \in DOMAIN rows)
            => /\ DOMAIN rows' = DOMAIN rows \ {target[p]}
               /\ \A i \in DOMAIN rows' : rows'[i] = rows[i]
       /\ (Moves(p, "renumber_commit", "done") /\ resp'[p].status = 302
             /\ LoadedIds(p) = DOMAIN rows)
            => /\ DOMAIN rows' = 1..Cardinality(DOMAIN rows)
               /\ \A o \in DOMAIN rows : rows'[Rank(DOMAIN rows, o)] = rows[o]]_vars

\* A delete of id 1 out of three rows has been answered: Bob and Carol moved down.
C1_Witness ==
  \E p \in Procs :
    /\ Answered(p, "delete", "GET") /\ resp[p] = RedirectIndex /\ req[p].id = 1
    /\ DOMAIN rows = {1, 2}
    /\ rows[1].email = "b@x.com" /\ rows[2].email = "c@x.com"

\* C10: with requests served one at a time from an empty table, whenever no
\* request is half-way the ids in the table are exactly 1..n.
C10_IdsContiguous ==
  \A p \in SeqProcs : pc[p] \in {"idle", "done"} => Contiguous(DOMAIN rows)

\* A delete has been answered and the id it deleted is in use again.
C10_Witness ==
  \E p \in SeqProcs :
    /\ Answered(p, "delete", "GET") /\ resp[p].status = 302
    /\ req[p].id \in DOMAIN rows

\* C2: a POST /edit/<id> whose email is stored on a different record answers with
\* the edit form and the text "Email already exists!", and leaves the table as it was.
C2_EditDuplicateRejected ==
  [][\A p \in SeqProcs :
       (pc[p] = "edit_check" /\ pc'[p] # "edit_check"
          /\ EmailTaken(rows, req[p].form.email, req[p].id))
         => /\ resp'[p] = Render("edit.html", "Email already exists!")
            /\ rows' = rows]_vars

\* C3: a POST /add whose email a stored record holds adds no row and changes
\* none, and is answered with a server error; no step of any request leaves two
\* records with one email.
C3_AddDuplicateFails ==
  [][/\ \A p \in Procs :
          (Moves(p, "idle", "done") /\ req'[p].op = "add" /\ req'[p].method = "POST"
             /\ EmailTaken(rows, req'[p].form.email, 0))
            => (rows' = rows /\ resp'[p].status = 500)
     /\ NoDupEmail(rows')]_vars

\* Dave's form, with Alice's email, has been refused while Alice is stored.
C3_Witness ==
  \E p \in Procs :
    /\ Answered(p, "add", "POST") /\ resp[p] = ServerError("IntegrityError")
    /\ req[p].form.name = "Dave"
    /\ \E i \in DOMAIN rows : rows[i] = [name |-> "Alice", email |-> "a@x.com", age |-> 20]

\* C4: a GET or POST to /edit/<id>, or a GET to /delete/<id>, with an id no record
\* has is answered 404 at once and the table is left as it was.
C4_MissingIdNotFound ==
  [][\A p \in Procs :
       (pc[p] = "idle" /\ pc'[p] # "idle" /\ req'[p].op \in {"edit", "delete"}
          /\ req'[p].id \notin DOMAIN rows)
         => (pc'[p] = "done" /\ resp'[p] = NotFound /\ rows' = rows)]_vars

\* A delete of an id nobody has, in a table that is not empty, has been answered 404.
C4_Witness ==
  \E p \in Procs :
    /\ Answered(p, "delete", "GET") /\ resp[p].status = 404
    /\ DOMAIN rows # {} /\ req[p].id \notin DOMAIN rows

\* C5: served alone, a POST /edit/<id> for a stored id with an email no other
\* record holds passes the check without touching the table, and its commit
\* overwrites the record's name, email and age with the form's, keeps its id and
\* every other record, and is answered with a redirect to the list.
C5_EditSucceeds ==
  [][\A p \in SeqProcs :
       /\ (pc[p] = "edit_check" /\ pc'[p] # "edit_check"
             /\ ~EmailTaken(rows, req[p].form.email, req[p].id))
            => (pc'[p] = "edit_commit" /\ rows' = rows)
       /\ (pc[p] = "edit_commit" /\ pc'[p] # "edit_commit")
            => /\ resp'[p] = RedirectIndex
               /\ DOMAIN rows' = DOMAIN rows
               /\ rows'[req[p].id] = RowOf(req[p].form)
               /\ \A j \in DOMAIN rows \ {req[p].id} : rows'[j] = rows[j]]_vars

\* Alice's record has been edited with Dave's form, which carries her own email.
C5_Witness ==
  \E p \in SeqProcs :
    /\ Answered(p, "edit", "POST") /\ resp[p] = RedirectIndex
    /\ req[p].id \in DOMAIN rows
    /\ rows[req[p].id] = [name |-> "Dave", email |-> "a@x.com", age |-> 23]
    /\ Cardinality(DOMAIN rows) = 2

\* C6: served alone, a POST /add with an email no record holds adds exactly one
\* row, with the form's name, email and age, under id 1 in an empty table and
\* the largest id + 1 otherwise, and changes no other row; and GET / lists every
\* stored record exactly once.
C6_AddThenListed ==
  [][\A p \in SeqProcs :
       /\ (Moves(p, "idle", "done") /\ req'[p].op = "add" /\ req'[p].method = "POST"
             /\ ~EmailTaken(rows, req'[p].form.email, 0))
            => LET n == IF DOMAIN rows = {} THEN 1
                        ELSE (CHOOSE m \in DOMAIN rows : \A i \in DOMAIN rows : i <= m) + 1
               IN  /\ DOMAIN rows' = DOMAIN rows \cup {n}
                   /\ n \notin DOMAIN rows
                   /\ rows'[n] = RowOf(req'[p].form)
                   /\ \A i \in DOMAIN rows : rows'[i] = rows[i]
                   /\ resp'[p] = RedirectIndex
       /\ (Moves(p, "idle", "done") /\ req'[p].op = "index")
            => LET L == resp'[p].students
               IN  /\ Len(L) = Cardinality(DOMAIN rows)
                   /\ \A i \in DOMAIN rows :
                        /\ Cardinality({k \in DOMAIN L : L[k].id = i}) = 1
                        /\ \A k \in DOMAIN L :
                             L[k].id = i => /\ L[k].name = rows[i].name
                                            /\ L[k].email = rows[i].email
                                            /\ L[k].age = rows[i].age]_vars

\* Bob's form has been added after Alice's and got id 2.
C6_Witness ==
  \E p \in SeqProcs :
    /\ Answered(p, "add", "POST") /\ resp[p] = RedirectIndex /\ assigned[p] = 2
    /\ DOMAIN rows = {1, 2}
    /\ rows[1].name = "Alice"
    /\ rows[2] = [name |-> "Bob", email |-> "b@x.com", age |-> 21]

\* The ids on a rendered list.
ListedIds(L) == {L[k].id : k \in DOMAIN L}

\* C7: the commit that removes a record other than the one with the largest id
\* from a table with ids 1..n leaves, with the delete request still half-way, a
\* table whose ids are not 1..n; and a GET / lists the table as it is committed
\* at that moment.
C7_ListSeesGap ==
  [][/\ \A p \in Procs :
          (Moves(p, "delete_commit", "delete_query") /\ Contiguous(DOMAIN rows)
             /\ target[p] \in DOMAIN rows /\ \E j \in DOMAIN rows : j > target[p])
            => ~Contiguous(DOMAIN rows')
     /\ \A q \in Procs :
          (Moves(q, "idle", "done") /\ req'[q].op = "index")
            => ListedIds(resp'[q].students) = DOMAIN rows]_vars

\* A list rendered while a delete is between its two commits shows ids that are not 1..n.
C7_Witness ==
  \E p, q \in Procs :
    /\ pc[p] \in {"delete_query", "renumber_commit"}
    /\ Answered(q, "index", "GET")
    /\ ~Contiguous(ListedIds(resp[q].students))

\* The ids the renumbering of worker p gives to records that had another id.
ReassignedIds(p) ==
  {students[p][k].new : k \in {j \in DOMAIN students[p] : Changed(students[p][j])}}

\* A POST /add has just been given an id that the renumbering worker p has in
\* hand gives to a surviving record.
Collision(p, q) ==
  /\ pc[p] = "renumber_commit"
  /\ Answered(q, "add", "POST") /\ assigned[q] # 0
  /\ assigned[q] \in ReassignedIds(p)

\* C8: the id given to a record added while a delete is between reading the
\* survivors and committing their new ids is one of those new ids only when the
\* table has lost a row since the survivors were read; the renumbering then fails.
C8_AddCollides ==
  \A p, q \in Procs :
    Collision(p, q)
      => /\ Cardinality(DOMAIN rows) <= Len(students[p])
         /\ ApplyUpdates(rows, SelectSeq(students[p], Changed)).error # ""

\* Such an add has happened.
C8_Witness == \E p, q \in Procs : Collision(p, q)

\* C9: the commit of a POST /edit/<id> either takes effect and is answered with a
\* redirect, or fails, and then the table is as it was, no two records share an
\* email, and the answer is the edit form with a text beginning "Update failed: ".
C9_EditCommitFailure ==
  [][\A p \in Procs :
       (pc[p] = "edit_commit" /\ pc'[p] # "edit_commit")
         => /\ pc'[p] = "done"
            /\ \/ resp'[p] = RedirectIndex
               \/ /\ resp'[p] = Render("edit.html", "Update failed: ")
                  /\ rows' = rows
                  /\ NoDupEmail(rows')
            /\ lock' = 0]_vars

\* An edit whose commit failed has been answered, and its record is not the form's.
C9_Witness ==
  \E p \in Procs :
    /\ Answered(p, "edit", "POST") /\ resp[p].error = "Update failed: "
    /\ req[p].id \in DOMAIN rows
    /\ rows[req[p].id].name # req[p].form.name

====
